---- MODULE Spec2Model ----
(***************************************************************************)
(* Task orchestration and cancellation of the Tripo3D backend:            *)
(* src/main.py (request handlers, orchestrator, disconnect monitor,       *)
(* shutdown) and src/utils/tripo_sdk_client.py (the job poller).          *)
(*                                                                         *)
(* Scheduling is asyncio's: one step of a coroutine runs from one          *)
(* suspension point (an await that yields to the event loop) to the next,  *)
(* atomically.  Each action below is one such step or one whole handler.   *)
(* Task.cancel() on a pending task makes the task's next step raise        *)
(* CancelledError at the await it is suspended on (or, for a task that     *)
(* has not run yet, before the first line of its coroutine).               *)
(*                                                                         *)
(* sdk_bound tells which dict the name active_tasks of                     *)
(* utils/tripo_sdk_client.py denotes: FALSE is the module's own dict       *)
(* (tripo_sdk_client.py:12, which nothing ever fills); TRUE is main.py's   *)
(* dict, the binding that the comments at tripo_sdk_client.py:10-11 and    *)
(* main.py:50 announce.  Init leaves the choice open, so every formula is  *)
(* checked for both.                                                       *)
(***************************************************************************)
EXTENDS Integers, Sequences, FiniteSets, TLC

\* ---------------------------------------------------------------- bounds
NumReq == 2             \* requests the server receives
MaxClock == 1           \* the millisecond clock runs over 0..MaxClock
\* what the environment does to a run, in all: first cancelling calls of
\* /cancel-generation per id, requesters that go away, the shutdown, and answers
\* of the collaborators off the nominal path
MaxEvents == 1
MaxCancels == 2         \* cancelling calls of /cancel-generation per id
max_wait_time == 6      \* budget of the job (300 in the source), in seconds
convert_max_wait == 3   \* budget of a conversion (120 in the source)
poll_interval == 3

Reqs == 1..NumReq
Ids == 0..MaxClock
NoTask == 0
\* the uploads of one request: one image (single view) or two (multi view)
Uploads == {<<"a.png">>, <<"a.png", "b.png">>}

Range(s) == {s[i] : i \in 1..Len(s)}

VARIABLES
    now,           \* time.time() * 1000
    stopped,       \* the lifespan's shutdown part has run
    disk,          \* the files of UPLOAD_DIR
    active_tasks,  \* main.py's registry: id -> task handle (NoTask: no key)
    sdk_bound,     \* see above
    key_error,     \* a del of an absent key was executed
    events,        \* the environment's events so far (see MaxEvents)
    cancel_log,    \* per id: the calls of /cancel-generation that returned success
    req,           \* per request: the handler generate_3d_model
    task,          \* per request: the asyncio task of process_3d_generation
    mon,           \* per request: the coroutine monitor_disconnect
    obs            \* per request: what has been observed of the task (history)

vars == <<now, stopped, disk, active_tasks, sdk_bound, key_error, events,
          cancel_log, req, task, mon, obs>>

\* ------------------------------------------------------- result records
Res(s, m) == [status |-> s, msg |-> m]
NoRes == Res("none", "")
R_cancelled == Res("cancelled", "Task cancelled")
R_cancelled_by_user == Res("cancelled", "Task cancelled by user")
R_server_cancelled == Res("cancelled", "Task cancelled on server")
R_failed == Res("failed", "")
R_timeout == Res("error", "Task timeout")
R_exception == Res("error", "exception")
R_success == Res("success", "")

\* what the task ended with: a returned dict ("value") or CancelledError ("raised")
Ret(k, r, g, u, t) == [kind |-> k, status |-> r.status, msg |-> r.msg,
                       glb |-> g, usdz |-> u, thumbnail |-> t]
NoRet == Ret("none", NoRes, 0, 0, FALSE)

InitReq == [h |-> "idle", task_id |-> 0, saved_files |-> <<>>,
            disconnected |-> FALSE]
InitTask == [pc |-> "none", must_cancel |-> FALSE, elapsed_time |-> 0,
             convert_elapsed |-> 0, status |-> "none", pbr_model |-> FALSE,
             usdz |-> FALSE, result |-> NoRes, ret |-> NoRet]
InitObs == [submits |-> 0, uploads |-> 0, cancel_at |-> "none",
            cancel_by |-> "none", inputs_left |-> FALSE, removed |-> 0,
            conv |-> "none", polls |-> 0, cpolls |-> 0]

Init ==
    /\ now = 0
    /\ stopped = FALSE
    /\ disk = {}
    /\ active_tasks = [i \in Ids |-> NoTask]
    /\ sdk_bound \in BOOLEAN
    /\ key_error = FALSE
    /\ events = 0
    /\ cancel_log = [i \in Ids |-> 0]
    /\ req = [r \in Reqs |-> InitReq]
    /\ task = [r \in Reqs |-> InitTask]
    /\ mon = [r \in Reqs |-> "none"]
    /\ obs = [r \in Reqs |-> InitObs]

\* ------------------------------------------------------------- registry
InRegistry(reg, id) == reg[id] # NoTask
\* task.done()
Done(r) == task[r].pc = "done"
Pending(r) == task[r].pc \notin {"none", "done"}
\* the registry holds the handle of r's task
HoldsHandle(reg, r) == task[r].pc # "none" /\ reg[req[r].task_id] = r

\* the dict the poller's checks read
SdkRegistry(reg) == IF sdk_bound THEN reg ELSE [i \in Ids |-> NoTask]
\* "task_id and task_id not in active_tasks" of tripo_sdk_client.py
PollerCancelled(reg, id) == ~InRegistry(SdkRegistry(reg), id)

\* variant: the del without its "in" guard
UnguardedDel(reg, id) ==
    [reg |-> [reg EXCEPT ![id] = NoTask], err |-> ~InRegistry(reg, id)]

\* "if task_id in active_tasks: del active_tasks[task_id]"
GuardedDel(reg, id) ==
    IF InRegistry(reg, id)
    THEN [reg |-> [reg EXCEPT ![id] = NoTask], err |-> FALSE]
    ELSE [reg |-> reg, err |-> FALSE]

\* variant: only the first saved file is removed
CleanupFirst(d, files) == d \ {files[i] : i \in {j \in 1..Len(files) : j = 1}}

\* the for loops that os.remove every saved file that exists
Cleanup(d, files) == d \ Range(files)

\* registry entries that a change of the registry took away, counted per handle
Removed(o, reg, reg2) ==
    [q \in Reqs |->
        IF HoldsHandle(reg, q) /\ reg2[req[q].task_id] # q
        THEN [o[q] EXCEPT !.removed = @ + 1] ELSE o[q]]

\* ------------------------------------------- the poller's control flow
\* the point of the task where a cancel found it ("poll0": the first poll)
Label(t) == IF t.pc = "poll" /\ t.elapsed_time = 0 THEN "poll0" ELSE t.pc

\* the submissions to the External Job Client a step has made
Called(o, t2) == [o EXCEPT !.submits = IF t2.pc = "submit" THEN @ + 1 ELSE @]

\* a return of generate_3d_from_images: __aexit__ awaits client.close()
Return(t, res) == [t EXCEPT !.pc = "closing", !.result = res]

\* variant: the loop has no budget ("while True")
PollLoopUnbounded(t, reg, id) ==
    IF PollerCancelled(reg, id)
    THEN Return(t, R_cancelled_by_user)
    ELSE [t EXCEPT !.pc = "poll"]

\* variant: the exhausted budget is reported as a remote failure
PollLoopFailed(t, reg, id) ==
    IF t.elapsed_time < max_wait_time
    THEN IF PollerCancelled(reg, id)
         THEN Return(t, R_cancelled_by_user)
         ELSE [t EXCEPT !.pc = "poll"]
    ELSE Return(t, R_failed)

\* "while elapsed_time < max_wait_time", its cancellation check and its poll;
\* after the loop, "if elapsed_time >= max_wait_time"
PollLoop(t, reg, id) ==
    IF t.elapsed_time < max_wait_time
    THEN IF PollerCancelled(reg, id)
         THEN Return(t, R_cancelled_by_user)
         ELSE [t EXCEPT !.pc = "poll"]
    ELSE Return(t, R_timeout)

\* the final cancellation check and the success record
FinalCheck(t, reg, id) ==
    IF PollerCancelled(reg, id) THEN Return(t, R_cancelled)
    ELSE Return(t, R_success)

\* "for fmt in formats": glb is the downloaded model, usdz is converted
Formats(t, reg, id) ==
    IF PollerCancelled(reg, id) THEN Return(t, R_cancelled)
    ELSE [t EXCEPT !.pc = "convert"]

\* "while convert_elapsed < convert_max_wait" and what follows the loop
ConvertLoop(t, reg, id) ==
    IF t.convert_elapsed < convert_max_wait
    THEN IF PollerCancelled(reg, id)
         THEN Return(t, R_cancelled)
         ELSE [t EXCEPT !.pc = "cpoll"]
    ELSE FinalCheck(t, reg, id)

\* ------------------------------------------------ the task's last step
\* the task ends with ret: the finally clause of process_3d_generation
Finish(r, ret, d2, ups, odd) ==
    LET id == req[r].task_id
        g == GuardedDel(active_tasks, id)
        o == Removed(obs, active_tasks, g.reg)
    IN /\ odd => events < MaxEvents
       /\ events' = IF odd THEN events + 1 ELSE events
       /\ task' = [task EXCEPT ![r] = [@ EXCEPT !.pc = "done", !.ret = ret,
                                          !.must_cancel = FALSE]]
       /\ active_tasks' = g.reg
       /\ key_error' = (key_error \/ g.err)
       /\ disk' = d2
       /\ obs' = [o EXCEPT ![r] =
                    [@ EXCEPT !.uploads = ups,
                              !.inputs_left =
                                  (Range(req[r].saved_files) \cap d2 # {})]]
       /\ mon' = [mon EXCEPT ![r] = IF @ = "created" THEN "exited" ELSE @]
       /\ UNCHANGED <<now, stopped, sdk_bound, cancel_log, req>>

\* lines 78-138 of main.py: what the orchestrator does with the poller's result
Orchestrate(r) ==
    LET t == task[r]
        id == req[r].task_id
        files == req[r].saved_files
        g == IF t.pbr_model THEN 1 ELSE 0
        u == IF t.usdz THEN 1 ELSE 0
        th == Len(files) > 0 /\ files[1] \in disk
        up == IF g + u > 0 \/ th THEN 1 ELSE 0
        cancelled == Ret("value", Res("cancelled", "Task was cancelled"), 0, 0, FALSE)
    IN CASE t.result.status = "cancelled" ->
                Finish(r, Ret("value", t.result, 0, 0, FALSE),
                       Cleanup(disk, files), 0, FALSE)
         [] t.result.status \in {"failed", "error"} ->
                Finish(r, Ret("value", t.result, 0, 0, FALSE), disk, 0, FALSE)
         [] OTHER ->
                IF ~InRegistry(active_tasks, id)
                THEN Finish(r, cancelled, disk, 0, FALSE)
                ELSE \E f \in 0..up :
                        \* f = 1: a move or an upload raises
                        IF f = 0
                        THEN Finish(r, Ret("value", R_success, g, u, th), disk, up, FALSE)
                        ELSE Finish(r, Ret("value", R_exception, 0, 0, FALSE), disk, up, TRUE)

\* a step of the task that stays inside generate_3d_from_images; odd: the
\* collaborator's answer was off the nominal path
Advance(r, t2, o2, odd) ==
    /\ odd => events < MaxEvents
    /\ events' = IF odd THEN events + 1 ELSE events
    /\ task' = [task EXCEPT ![r] = t2]
    /\ obs' = [obs EXCEPT ![r] = Called(o2, t2)]
    /\ mon' = [mon EXCEPT ![r] = IF @ = "created" THEN "watching" ELSE @]
    /\ UNCHANGED <<now, stopped, disk, active_tasks, sdk_bound, key_error,
                   cancel_log, req>>

\* the task can take its next step with the value of the await it is on
Resumes(r, at) == task[r].pc = at /\ ~task[r].must_cancel

\* ------------------------------------------------- the task, step by step
\* first step: lines 56-76 of main.py and 29-45 of tripo_sdk_client.py
StartTask(r) ==
    /\ Resumes(r, "created")
    /\ LET id == req[r].task_id
       IN IF ~InRegistry(active_tasks, id)
          THEN Finish(r, Ret("value", Res("cancelled", "Task was cancelled"), 0, 0, FALSE),
                      Cleanup(disk, req[r].saved_files), 0, FALSE)
          ELSE IF PollerCancelled(active_tasks, id)
               THEN Advance(r, Return(task[r], R_cancelled), obs[r], FALSE)
               ELSE Advance(r, [task[r] EXCEPT !.pc = "submit"], obs[r], FALSE)

\* image_to_model / multiview_to_model returns or raises
SubmitReturns(r) ==
    /\ Resumes(r, "submit")
    /\ \E ok \in BOOLEAN :
        IF ok
        THEN Advance(r, PollLoop([task[r] EXCEPT !.elapsed_time = 0],
                                 active_tasks, req[r].task_id), obs[r], FALSE)
        ELSE Advance(r, Return(task[r], R_exception), obs[r], TRUE)

\* get_task returns the job's status or raises
PollReturns(r) ==
    /\ Resumes(r, "poll")
    /\ \E st \in {"running", "success", "failed", "cancelled", "raise"} :
        LET t == [task[r] EXCEPT !.status = st]
            o == [obs[r] EXCEPT !.polls = @ + 1]
            id == req[r].task_id
        IN CASE st = "success" ->
                    Advance(r, IF PollerCancelled(active_tasks, id)
                               THEN Return(t, R_cancelled)
                               ELSE [t EXCEPT !.pc = "download"], o, FALSE)
             [] st = "failed" -> Advance(r, Return(t, R_failed), o, TRUE)
             [] st = "cancelled" -> Advance(r, Return(t, R_server_cancelled), o, TRUE)
             [] st = "raise" -> Advance(r, Return(task[r], R_exception), o, TRUE)
             [] OTHER -> Advance(r, [t EXCEPT !.pc = "sleep"], o, FALSE)

\* asyncio.sleep(poll_interval) is over
SleepReturns(r) ==
    /\ Resumes(r, "sleep")
    /\ Advance(r, PollLoop([task[r] EXCEPT !.elapsed_time = @ + poll_interval],
                           active_tasks, req[r].task_id), obs[r], FALSE)

\* download_task_models returns the base files (with or without pbr_model)
DownloadReturns(r) ==
    /\ Resumes(r, "download")
    /\ \E d \in {"pbr", "nopbr", "raise"} :
        IF d = "raise"
        THEN Advance(r, Return(task[r], R_exception), obs[r], TRUE)
        ELSE Advance(r, Formats([task[r] EXCEPT !.pbr_model = (d = "pbr")],
                                active_tasks, req[r].task_id), obs[r], d = "nopbr")

\* convert_model returns the conversion's id or raises (caught per format)
ConvertReturns(r) ==
    /\ Resumes(r, "convert")
    /\ \E ok \in BOOLEAN :
        IF ok
        THEN Advance(r, ConvertLoop([task[r] EXCEPT !.convert_elapsed = 0],
                                    active_tasks, req[r].task_id), obs[r], FALSE)
        ELSE Advance(r, FinalCheck(task[r], active_tasks, req[r].task_id),
                     [obs[r] EXCEPT !.conv = "error"], TRUE)

\* get_task of the conversion returns or raises
ConvertPollReturns(r) ==
    /\ Resumes(r, "cpoll")
    /\ \E st \in {"running", "success", "failed", "raise"} :
        LET id == req[r].task_id
            o == [obs[r] EXCEPT !.cpolls = @ + 1]
        IN CASE st = "success" ->
                    Advance(r, [task[r] EXCEPT !.pc = "cdownload"], o, FALSE)
             [] st = "failed" -> Advance(r, FinalCheck(task[r], active_tasks, id),
                                         [o EXCEPT !.conv = "failed"], TRUE)
             [] st = "raise" -> Advance(r, FinalCheck(task[r], active_tasks, id),
                                        [o EXCEPT !.conv = "error"], TRUE)
             \* queued, running and (unhandled here) cancelled
             [] OTHER -> Advance(r, [task[r] EXCEPT !.pc = "csleep"], o, FALSE)

\* asyncio.sleep(poll_interval) of the conversion loop is over
ConvertSleepReturns(r) ==
    /\ Resumes(r, "csleep")
    /\ LET e == task[r].convert_elapsed + poll_interval
       IN Advance(r, ConvertLoop([task[r] EXCEPT !.convert_elapsed = e],
                                 active_tasks, req[r].task_id),
                  IF e < convert_max_wait THEN obs[r]
                  ELSE [obs[r] EXCEPT !.conv = "timeout"], FALSE)

\* download_task_models of the conversion returns its paths or raises
ConvertDownloadReturns(r) ==
    /\ Resumes(r, "cdownload")
    /\ \E d \in {"paths", "nopaths", "raise"} :
        LET id == req[r].task_id
        IN IF d = "raise"
           THEN Advance(r, FinalCheck(task[r], active_tasks, id),
                        [obs[r] EXCEPT !.conv = "error"], TRUE)
           ELSE Advance(r, FinalCheck([task[r] EXCEPT !.usdz = (d = "paths")],
                                      active_tasks, id),
                        [obs[r] EXCEPT !.conv = "ok"], d = "nopaths")

\* __aexit__ is over: back in process_3d_generation, to its end
CloseReturns(r) ==
    /\ Resumes(r, "closing")
    /\ Orchestrate(r)

\* the task's next step when Task.cancel() was called: CancelledError is raised
\* at the await the task is on
DeliverCancel(r) ==
    /\ Pending(r)
    /\ task[r].must_cancel
    /\ LET raised == Ret("raised", Res("cancelled", "CancelledError"), 0, 0, FALSE)
       IN CASE task[r].pc = "created" ->
                \* the coroutine never starts: no try block is entered
                /\ task' = [task EXCEPT ![r] = [@ EXCEPT !.pc = "done", !.ret = raised,
                                                         !.must_cancel = FALSE]]
                /\ obs' = [obs EXCEPT ![r].inputs_left =
                                          (Range(req[r].saved_files) \cap disk # {})]
                /\ mon' = [mon EXCEPT ![r] = "exited"]
                /\ UNCHANGED <<now, stopped, disk, active_tasks, sdk_bound, key_error,
                               events, cancel_log, req>>
            [] task[r].pc = "closing" ->
                \* outside the poller's try: "except asyncio.CancelledError" of main.py
                Finish(r, raised, Cleanup(disk, req[r].saved_files), 0, FALSE)
            [] OTHER ->
                \* "except asyncio.CancelledError" of tripo_sdk_client.py
                Advance(r, [Return(task[r], Res("cancelled", "Task was cancelled"))
                                EXCEPT !.must_cancel = FALSE],
                        obs[r], FALSE)

\* ------------------------------------------------------------ cancelling
\* variant: Task.cancel() is not called
CancelNothing(tk, C) == tk

\* Task.cancel() on the pending tasks of C
Cancel(tk, C) ==
    [q \in Reqs |-> IF q \in C /\ tk[q].pc \notin {"none", "done"}
                    THEN [tk[q] EXCEPT !.must_cancel = TRUE] ELSE tk[q]]
\* history: where the first cancel found the task, and who cancelled
Cancelled(o, C, src) ==
    [q \in Reqs |-> IF q \in C /\ Pending(q) /\ o[q].cancel_at = "none"
                    THEN [o[q] EXCEPT !.cancel_at = Label(task[q]),
                                      !.cancel_by = src]
                    ELSE o[q]]

CancelReturn(reg, id) ==
    IF InRegistry(reg, id)
    THEN IF ~Done(reg[id]) THEN "success" ELSE "already_completed"
    ELSE "not_found"

\* POST /cancel-generation/{task_id}
cancel_generation(id) ==
    /\ ~stopped
    /\ LET ret == CancelReturn(active_tasks, id)
           C == IF ret = "success" THEN {active_tasks[id]} ELSE {}
           first == ret = "success" /\ cancel_log[id] = 0
       IN /\ first => events < MaxEvents
          /\ ret = "success" => cancel_log[id] < MaxCancels
          /\ events' = IF first THEN events + 1 ELSE events
          /\ task' = Cancel(task, C)
          /\ obs' = Cancelled(obs, C, "explicit")
          /\ cancel_log' = IF ret = "success"
                           THEN [cancel_log EXCEPT ![id] = @ + 1] ELSE cancel_log
    /\ UNCHANGED <<now, stopped, disk, active_tasks, sdk_bound, key_error, req, mon>>

\* GET /task-status/{task_id}; task.result() of a cancelled task raises
\* CancelledError, which "except Exception" does not catch
GetTaskStatus(id) ==
    IF InRegistry(active_tasks, id)
    THEN IF Done(active_tasks[id])
         THEN IF task[active_tasks[id]].ret.kind = "raised"
              THEN "CancelledError" ELSE "completed"
         ELSE "processing"
    ELSE "not_found"

get_task_status(id) ==
    /\ ~stopped
    /\ GetTaskStatus(id) \in {"completed", "CancelledError", "processing", "not_found"}
    /\ UNCHANGED vars

\* variant: the tasks are cancelled and the registry is not cleared
lifespanNoClear ==
    /\ ~stopped
    /\ events < MaxEvents
    /\ events' = events + 1
    /\ LET C == {active_tasks[i] : i \in {j \in Ids : InRegistry(active_tasks, j)}}
       IN /\ task' = Cancel(task, C)
          /\ obs' = Cancelled(obs, C, "shutdown")
          /\ active_tasks' = active_tasks
    /\ stopped' = TRUE
    /\ UNCHANGED <<now, disk, sdk_bound, key_error, cancel_log, req, mon>>

\* the shutdown part of lifespan
lifespan ==
    /\ ~stopped
    /\ events < MaxEvents
    /\ events' = events + 1
    /\ LET C == {active_tasks[i] : i \in {j \in Ids : InRegistry(active_tasks, j)}}
           empty == [i \in Ids |-> NoTask]
       IN /\ task' = Cancel(task, C)
          /\ obs' = Removed(Cancelled(obs, C, "shutdown"), active_tasks, empty)
          /\ active_tasks' = empty
    /\ stopped' = TRUE
    /\ UNCHANGED <<now, disk, sdk_bound, key_error, cancel_log, req, mon>>

\* ------------------------------------------------ the disconnect monitor
\* The monitor is suspended either in request.is_disconnected() or in
\* asyncio.sleep(0.5).  While the task is pending and the requester is there it
\* only alternates between the two, so both are the one position "watching":
\* from it the monitor finds the task done (it was asleep) or the requester
\* gone (it was asking).  The handler creates the task and then the monitor, so
\* the event loop runs the monitor's first step ("while not task.done()", then
\* the first is_disconnected()) right after the task's first step: the task's
\* first step takes the monitor from "created" to "watching", or to "exited"
\* when it ends the task.

\* variant: the loop does not look at task.done() and goes on sleeping
MonitorSleepsOn(r) ==
    /\ mon[r] = "watching"
    /\ Done(r)
    /\ UNCHANGED vars

\* after a sleep, "while not task.done()" ends the loop
MonitorExit(r) ==
    /\ mon[r] = "watching"
    /\ Done(r)
    /\ mon' = [mon EXCEPT ![r] = "exited"]
    /\ UNCHANGED <<now, stopped, disk, active_tasks, sdk_bound, key_error,
                   events, cancel_log, req, task, obs>>

\* request.is_disconnected() answers True: lines 197-201
MonitorDetects(r) ==
    /\ mon[r] = "watching"
    /\ req[r].disconnected
    /\ LET g == GuardedDel(active_tasks, req[r].task_id)
       IN /\ task' = Cancel(task, {r})
          /\ active_tasks' = g.reg
          /\ key_error' = (key_error \/ g.err)
          /\ obs' = Removed(Cancelled(obs, {r}, "disconnect"), active_tasks, g.reg)
          /\ mon' = [mon EXCEPT ![r] = "exited"]
    /\ UNCHANGED <<now, stopped, disk, sdk_bound, events, cancel_log, req>>

\* ------------------------------------------ POST /generate-3d-model
\* the id is taken and the images are saved; then request.is_disconnected()
Arrive(r) ==
    /\ ~stopped
    /\ req[r].h = "idle"
    /\ r > 1 => req[r - 1].h # "idle"
    /\ \E files \in Uploads :
        /\ req' = [req EXCEPT ![r] = [@ EXCEPT !.h = "saved", !.task_id = now,
                                              !.saved_files = files]]
        /\ disk' = disk \cup Range(files)
    /\ UNCHANGED <<now, stopped, active_tasks, sdk_bound, key_error, events,
                   cancel_log, task, mon, obs>>

\* the requester goes away
Disconnect(r) ==
    /\ req[r].h \in {"saved", "awaiting"}
    /\ ~Done(r)
    /\ ~req[r].disconnected
    /\ events < MaxEvents
    /\ events' = events + 1
    /\ req' = [req EXCEPT ![r].disconnected = TRUE]
    /\ UNCHANGED <<now, stopped, disk, active_tasks, sdk_bound, key_error,
                   cancel_log, task, mon, obs>>

\* lines 180-211: the early disconnect check, else the task is created and
\* registered, the monitor is created, and the handler awaits the task
Start(r) ==
    /\ ~stopped
    /\ req[r].h = "saved"
    /\ IF req[r].disconnected
       THEN /\ disk' = Cleanup(disk, req[r].saved_files)
            /\ req' = [req EXCEPT ![r].h = "responded"]
            /\ UNCHANGED <<active_tasks, task, mon, obs>>
       ELSE LET reg2 == [active_tasks EXCEPT ![req[r].task_id] = r]
            IN /\ task' = [task EXCEPT ![r].pc = "created"]
               /\ active_tasks' = reg2
               /\ obs' = Removed(obs, active_tasks, reg2)
               /\ mon' = [mon EXCEPT ![r] = "created"]
               /\ req' = [req EXCEPT ![r].h = "awaiting"]
               /\ disk' = disk
    /\ UNCHANGED <<now, stopped, sdk_bound, key_error, events, cancel_log>>

\* what generate_3d_model answers: "result = await task" gives the task's
\* dict, CancelledError gives the dict "Generation was cancelled"
Response(r) ==
    CASE req[r].h = "responded" -> "cancelled"
      [] req[r].h = "awaiting" /\ Done(r) -> task[r].ret.status
      [] OTHER -> "none"

\* a millisecond passes
Tick ==
    /\ ~stopped
    /\ \E r \in Reqs : req[r].h = "idle"
    /\ \E r \in Reqs : req[r].h # "idle"
    /\ now < MaxClock
    /\ now' = now + 1
    /\ UNCHANGED <<stopped, disk, active_tasks, sdk_bound, key_error, events,
                   cancel_log, req, task, mon, obs>>

Next ==
    \/ Tick
    \/ lifespan
    \/ \E id \in Ids : cancel_generation(id)
    \/ \E id \in Ids : get_task_status(id)
    \/ \E r \in Reqs :
        \/ Arrive(r) \/ Disconnect(r) \/ Start(r)
        \/ MonitorExit(r) \/ MonitorDetects(r)
        \/ StartTask(r) \/ SubmitReturns(r) \/ PollReturns(r) \/ SleepReturns(r)
        \/ DownloadReturns(r) \/ ConvertReturns(r) \/ ConvertPollReturns(r)
        \/ ConvertSleepReturns(r) \/ ConvertDownloadReturns(r)
        \/ CloseReturns(r) \/ DeliverCancel(r)

Spec == Init /\ [][Next]_vars

\* the event loop runs every coroutine that is ready: the monitor's awaits
\* (request.is_disconnected(), asyncio.sleep(0.5)) return and the monitor is
\* resumed
FairSpec ==
    Spec /\ \A r \in Reqs : WF_vars(MonitorExit(r)) /\ WF_vars(MonitorDetects(r))

\* a step of the task of request r
TaskStep(r) ==
    \/ StartTask(r) \/ SubmitReturns(r) \/ PollReturns(r) \/ SleepReturns(r)
    \/ DownloadReturns(r) \/ ConvertReturns(r) \/ ConvertPollReturns(r)
    \/ ConvertSleepReturns(r) \/ ConvertDownloadReturns(r)
    \/ CloseReturns(r) \/ DeliverCancel(r)

\* every await of the task returns (or raises) and the task is resumed
TaskFairSpec == Spec /\ \A r \in Reqs : WF_vars(TaskStep(r))

\* ================================================================ claims
Started(r) == task[r].pc # "none"
\* no Task.cancel() reached the task and the server was not shut down
NeverCancelled(r) == obs[r].cancel_at = "none" /\ ~stopped
\* the first cancel came before the job was submitted
CancelledBeforeSubmit(r) ==
    \/ obs[r].cancel_at = "created"
    \/ obs[r].cancel_at = "closing" /\ obs[r].submits = 0
\* the job was still running when elapsed_time reached max_wait_time
BudgetExhausted(r) ==
    /\ task[r].pc \in {"closing", "done"}
    /\ task[r].status = "running"
    /\ task[r].elapsed_time >= max_wait_time

C2_CancelBeforeSubmit ==
    \A r \in Reqs :
        CancelledBeforeSubmit(r)
            => /\ obs[r].submits = 0
               /\ task[r].pc \in {"created", "closing", "done"}
               /\ Done(r) => ~obs[r].inputs_left

C4_SuccessOnce == \A id \in Ids : cancel_log[id] <= 1

\* C5: when the monitor detects the disconnect while the poller is polling
\* (in get_task or in the sleep between polls), the task's entry is out of the
\* registry, nothing is ever uploaded for the task, and its input files are
\* deleted when it ends.
DisconnectMidPoll(r) ==
    obs[r].cancel_by = "disconnect" /\ obs[r].cancel_at \in {"poll0", "poll", "sleep"}
C6_Deregistered ==
    /\ \A r \in Reqs : Done(r) => ~InRegistry(active_tasks, req[r].task_id)
    /\ (\A r \in Reqs : Started(r) => Done(r))
            => \A id \in Ids : ~InRegistry(active_tasks, id)

CheckpointCancelled(r) ==
    /\ Done(r) /\ task[r].ret.kind = "value" /\ task[r].ret.status = "cancelled"
    /\ task[r].result \in {NoRes, R_cancelled, R_cancelled_by_user, R_success}

C13_Shutdown ==
    stopped =>
        /\ \A id \in Ids : ~InRegistry(active_tasks, id)
        /\ ~key_error
        /\ \A r \in Reqs :
              obs[r].cancel_by = "shutdown"
                  => /\ obs[r].uploads = 0
                     /\ ~(Done(r) /\ task[r].ret.status = "success")
C13_Witness ==
    /\ stopped
    /\ \E r \in Reqs :
          /\ Done(r) /\ obs[r].cancel_by = "shutdown"
          /\ obs[r].cancel_at \notin {"none", "created"}

\* C14: while the poller of a task runs, its activity check answers
\* "inactive" exactly when the task's id is absent from main.py's registry; in
\* particular the poller never returns cancelled for a task that was never
\* cancelled and whose entry was never taken out of the registry.
C14_SingleRegistry ==
    \A r \in Reqs :
        /\ (Pending(r) /\ task[r].pc # "created") =>
              (PollerCancelled(active_tasks, req[r].task_id)
                  <=> ~InRegistry(active_tasks, req[r].task_id))
        /\ (NeverCancelled(r) /\ obs[r].removed = 0) =>
              task[r].result \notin {R_cancelled, R_cancelled_by_user}

\* C15: the registry holds a task's handle exactly while the task is eligible
\* to keep running: started, not ended, and not cancelled by
\* /cancel-generation, by a disconnect or by the shutdown.
C15_RegisteredIffEligible ==
    \A r \in Reqs :
        HoldsHandle(active_tasks, r) <=> (Pending(r) /\ obs[r].cancel_at = "none")

\* C16: once a task has ended, its monitor exits, whether or not a disconnect
\* was detected; and the step in which a watching monitor exits does nothing
\* to the tasks but Task.cancel() on its own task, and nothing to the handlers.
C16_MonitorTerminates ==
    /\ \A r \in Reqs : Done(r) ~> (mon[r] = "exited")
    /\ [][\A r \in Reqs :
            (mon[r] = "watching" /\ mon'[r] = "exited")
                => (task' = Cancel(task, {r}) /\ req' = req)]_vars
C16_Witness ==
    \E r \in Reqs :
        /\ Done(r) /\ mon[r] = "exited" /\ ~req[r].disconnected
        /\ obs[r].submits = 1 /\ obs[r].cancel_at = "none"

\* the polls a budget allows: one per interval while elapsed < budget
MaxPolls(budget) == (budget + poll_interval - 1) \div poll_interval

C18_FilesOwned ==
    (\A q \in Reqs : req[q].h # "responded")
        => \A r \in Reqs :
              (Pending(r) /\ NeverCancelled(r))
                  => Range(req[r].saved_files) \subseteq disk

\* C19: two tasks in flight never have the same id, so neither's registry
\* entry is overwritten, removed or cancelled through the other's id.
C19_DistinctKeys ==
    \A r1, r2 \in Reqs :
        (r1 # r2 /\ Pending(r1) /\ Pending(r2))
            => req[r1].task_id # req[r2].task_id

====
